---- MODULE Spec2Model ----
(***************************************************************************)
(* Model of src/file_system/directory.rs of rvl: the entry classifier      *)
(* (DirectoryEntryKind::from), the entry collector                         *)
(* (Directory::from, get_stream, get_entries) and the reporter             *)
(* (Directory::reveal, DirectoryEntry::as_string).                         *)
(*                                                                         *)
(* Text is modelled as sequences of bytes (numbers 0..255), so that the    *)
(* order of names is the byte order Rust's String comparison uses.         *)
(***************************************************************************)
EXTENDS Integers, Sequences, FiniteSets, TLC

(***************************************************************************)
(* Bounds of the model.                                                    *)
(***************************************************************************)
MaxChildren == 3      \* children of the listed directory
MaxReveals == 2       \* calls of reveal on one Directory value

(***************************************************************************)
(* Option / Result values.                                                 *)
(***************************************************************************)
None == [tag |-> "None"]
Some(v) == [tag |-> "Some", value |-> v]

(***************************************************************************)
(* The file system the program reads.                                      *)
(*                                                                         *)
(* A child of the directory is described by what the system calls made on  *)
(* it answer:                                                              *)
(*   item   : "ok" or "err", what the directory stream yields for it       *)
(*   lnk    : the child itself is a symbolic link                          *)
(*   target : the text stored in the link (empty when lnk is FALSE)        *)
(*   st     : the result of stat(2), which follows symbolic links          *)
(*   ftype  : the S_IFMT file type stat reports (of the link's target for  *)
(*            a link)                                                      *)
(*   uid    : the st_uid stat reports                                      *)
(***************************************************************************)
Names ==
    { <<66>>,          \* "B"
      <<97>>,          \* "a"
      <<97, 66>>,      \* "aB"
      <<97, 255>> }    \* "a" followed by a byte that is no UTF-8

TargetText == <<116>>  \* "t"

Profiles ==
    { [item |-> "ok",  lnk |-> FALSE, target |-> <<>>, st |-> "ok",
       ftype |-> "S_IFREG", uid |-> 1000],
      [item |-> "ok",  lnk |-> FALSE, target |-> <<>>, st |-> "ok",
       ftype |-> "S_IFREG", uid |-> 4242],
      [item |-> "ok",  lnk |-> FALSE, target |-> <<>>, st |-> "ok",
       ftype |-> "S_IFDIR", uid |-> 0],
      [item |-> "ok",  lnk |-> TRUE,  target |-> TargetText, st |-> "ok",
       ftype |-> "S_IFREG", uid |-> 1000],
      [item |-> "ok",  lnk |-> TRUE,  target |-> TargetText, st |-> "ENOENT",
       ftype |-> "none", uid |-> 0],
      [item |-> "ok",  lnk |-> FALSE, target |-> <<>>, st |-> "EACCES",
       ftype |-> "none", uid |-> 0],
      [item |-> "err", lnk |-> FALSE, target |-> <<>>, st |-> "ok",
       ftype |-> "S_IFIFO", uid |-> 0] }

OpenResults == {"ok", "ENOENT", "ENOTDIR", "EACCES"}

\* The user database the User Resolver reads: uid -> login name.
passwd ==
    (0 :> <<114, 111, 111, 116>>)                \* "root"
    @@ (1000 :> <<97, 108, 105, 99, 101>>)       \* "alice"

RECURSIVE Perms(_)
Perms(S) ==
    IF S = {} THEN {<<>>}
    ELSE UNION { { <<x>> \o q : q \in Perms(S \ {x}) } : x \in S }

VARIABLES
    open,          \* what read_dir answers for the path
    disk,          \* the children of the directory: name -> profile
    listing,       \* the order in which the opened stream yields them
    pc,            \* position of the program
    stream,        \* Directory.stream: the items not yet taken
    entries,       \* the Vec<DirectoryEntry> of get_entries / reveal
    cursor,        \* how many entries reveal's for loop has taken
    entry_number,  \* reveal's entry_number
    stdout,        \* lines printed
    stderr,        \* errors printed
    exit_status,   \* exit status of the process, -1 while it runs
    reveals,       \* calls of reveal that have returned
    file_type,     \* argument of DirectoryEntryKind::from
    kind           \* result of DirectoryEntryKind::from, "none" before the call

vars == <<open, disk, listing, pc, stream, entries, cursor, entry_number,
          stdout, stderr, exit_status, reveals, file_type, kind>>

(***************************************************************************)
(* std::fs::FileType: the six indicators of a file type.                   *)
(***************************************************************************)
FileType(ftype) ==
    [is_file        |-> ftype = "S_IFREG",
     is_dir         |-> ftype = "S_IFDIR",
     is_socket      |-> ftype = "S_IFSOCK",
     is_char_device |-> ftype = "S_IFCHR",
     is_block_device |-> ftype = "S_IFBLK",
     is_fifo        |-> ftype = "S_IFIFO"]

FileTypes ==
    [is_file : BOOLEAN, is_dir : BOOLEAN, is_socket : BOOLEAN,
     is_char_device : BOOLEAN, is_block_device : BOOLEAN, is_fifo : BOOLEAN]

DirectoryEntryKind ==
    {"File", "Directory", "Socket", "Character", "Block", "Fifo", "Unknown"}

\* A classifier that tests the fifo indicator before the two device ones.
from_fifo_first(ft) ==
    IF ft.is_file THEN "File"
    ELSE IF ft.is_dir THEN "Directory"
    ELSE IF ft.is_socket THEN "Socket"
    ELSE IF ft.is_fifo THEN "Fifo"
    ELSE IF ft.is_char_device THEN "Character"
    ELSE IF ft.is_block_device THEN "Block"
    ELSE "Unknown"

\* DirectoryEntryKind::from
from(ft) ==
    IF ft.is_file THEN "File"
    ELSE IF ft.is_dir THEN "Directory"
    ELSE IF ft.is_socket THEN "Socket"
    ELSE IF ft.is_char_device THEN "Character"
    ELSE IF ft.is_block_device THEN "Block"
    ELSE IF ft.is_fifo THEN "Fifo"
    ELSE "Unknown"

\* DirectoryEntryKind::as_string, as bytes
kind_as_string(k) ==
    CASE k = "File"      -> <<70, 105, 108, 101>>
      [] k = "Directory" -> <<68, 105, 114, 101, 99, 116, 111, 114, 121>>
      [] k = "Socket"    -> <<83, 111, 99, 107, 101, 116>>
      [] k = "Character" -> <<67, 104, 97, 114, 97, 99, 116, 101, 114>>
      [] k = "Block"     -> <<66, 108, 111, 99, 107>>
      [] k = "Fifo"      -> <<70, 105, 102, 111>>
      [] k = "Unknown"   -> <<85, 110, 107, 110, 111, 119, 110>>

(***************************************************************************)
(* Text: UTF-8 validation (OsStr::to_str) and the order of String.         *)
(***************************************************************************)
IsCont(b) == b >= 128 /\ b <= 191

RECURSIVE IsUtf8(_)
IsUtf8(s) ==
    IF s = <<>> THEN TRUE
    ELSE LET b == s[1]
             n == Len(s)
         IN  IF b < 128 THEN IsUtf8(Tail(s))
             ELSE IF b >= 194 /\ b <= 223
                  THEN n >= 2 /\ IsCont(s[2]) /\ IsUtf8(SubSeq(s, 3, n))
             ELSE IF b >= 224 /\ b <= 239
                  THEN /\ n >= 3 /\ IsCont(s[2]) /\ IsCont(s[3])
                       /\ (b = 224 => s[2] >= 160)
                       /\ (b = 237 => s[2] <= 159)
                       /\ IsUtf8(SubSeq(s, 4, n))
             ELSE IF b >= 240 /\ b <= 244
                  THEN /\ n >= 4 /\ IsCont(s[2]) /\ IsCont(s[3]) /\ IsCont(s[4])
                       /\ (b = 240 => s[2] >= 144)
                       /\ (b = 244 => s[2] <= 143)
                       /\ IsUtf8(SubSeq(s, 5, n))
             ELSE FALSE

\* OsStr::to_str, lossy: every name becomes text.
to_str_lossy(bytes) == Some(bytes)

\* OsStr::to_str
to_str(bytes) == IF IsUtf8(bytes) THEN Some(bytes) ELSE None

\* An order that ignores the case of ASCII letters.
Fold(b) == IF b >= 97 /\ b <= 122 THEN b - 32 ELSE b

RECURSIVE cmp_caseless(_, _)
cmp_caseless(a, b) ==
    IF a = <<>> THEN (IF b = <<>> THEN "Equal" ELSE "Less")
    ELSE IF b = <<>> THEN "Greater"
    ELSE IF Fold(a[1]) < Fold(b[1]) THEN "Less"
    ELSE IF Fold(a[1]) > Fold(b[1]) THEN "Greater"
    ELSE cmp_caseless(Tail(a), Tail(b))

\* Ord for String: the lexicographic order of the bytes
RECURSIVE cmp(_, _)
cmp(a, b) ==
    IF a = <<>> THEN (IF b = <<>> THEN "Equal" ELSE "Less")
    ELSE IF b = <<>> THEN "Greater"
    ELSE IF a[1] < b[1] THEN "Less"
    ELSE IF a[1] > b[1] THEN "Greater"
    ELSE cmp(Tail(a), Tail(b))

\* Inserts e after every element of the sorted list whose key is not greater.
RECURSIVE Insert(_, _)
Insert(sorted, e) ==
    IF sorted = <<>> THEN <<e>>
    ELSE IF cmp(e.name, sorted[Len(sorted)].name) = "Less"
         THEN Append(Insert(SubSeq(sorted, 1, Len(sorted) - 1), e),
                     sorted[Len(sorted)])
         ELSE Append(sorted, e)

\* entries.sort_by_key(|entry| entry.name.clone()): a stable sort
RECURSIVE sort_by_key(_)
sort_by_key(list) ==
    IF list = <<>> THEN <<>>
    ELSE Insert(sort_by_key(SubSeq(list, 1, Len(list) - 1)), list[Len(list)])

(***************************************************************************)
(* The calls get_entries makes on one item of the stream.                  *)
(***************************************************************************)
\* The item the stream yields for a child: Ok(DirEntry) or Err.
dir_entry(name) == IF disk[name].item = "ok" THEN Some(name) ELSE None

\* Path::file_name of <directory>/<name>: None only for a path ending in ".."
file_name(name) == IF name = <<46, 46>> THEN None ELSE Some(name)

\* Path::metadata: stat(2), which follows symbolic links
metadata(name) ==
    IF disk[name].st = "ok"
    THEN Some([file_type |-> FileType(disk[name].ftype), uid |-> disk[name].uid])
    ELSE None

\* fs::canonicalize in the place of read_link: a path for every child.
read_link_canonical(name) ==
    Some(IF disk[name].lnk THEN disk[name].target ELSE name)

\* fs::read_link: readlink(2), which fails on anything but a symbolic link
read_link(name) ==
    IF disk[name].lnk THEN Some(disk[name].target) ELSE None

\* UnixUser::from: the user of the uid, None when the database has none
UnixUser_from(uid) ==
    IF uid \in DOMAIN passwd THEN Some([name |-> passwd[uid]]) ELSE None

\* UnixUser::get_name
get_name(user) == user.name

\* One pass of the for loop of get_entries: the entries pushed for an item,
\* none when the pass ends in "continue".
LoopBody(name) ==
    LET entry == dir_entry(name) IN
    IF entry = None THEN <<>> ELSE
    LET fname == file_name(entry.value) IN
    IF fname = None THEN <<>> ELSE
    LET text == to_str(fname.value) IN
    IF text = None THEN <<>> ELSE
    LET md == metadata(name) IN
    IF md = None THEN <<>> ELSE
    LET symlink_path == read_link(name) IN
    << [name         |-> text.value,
        kind         |-> from(md.value.file_type),
        owner        |-> UnixUser_from(md.value.uid),
        symlink_path |-> symlink_path] >>

(***************************************************************************)
(* Rendering.                                                              *)
(***************************************************************************)
\* DirectoryEntry::as_string with the owner column left empty.
as_string_no_owner(e) ==
    [decorator |-> IF e.symlink_path = None THEN <<32>> ELSE <<64>>,
     kind      |-> kind_as_string(e.kind),
     owner     |-> <<>>,
     name      |-> e.name,
     suffix    |-> IF e.symlink_path = None THEN <<>>
                   ELSE <<32, 45, 62, 32>> \o e.symlink_path.value]

\* DirectoryEntry::as_string: the columns of an entry's line ("@" is 64,
\* " " is 32, " -> " is 32 45 62 32)
as_string(e) ==
    [decorator |-> IF e.symlink_path = None THEN <<32>> ELSE <<64>>,
     kind      |-> kind_as_string(e.kind),
     owner     |-> IF e.owner = None THEN <<>> ELSE get_name(e.owner.value),
     name      |-> e.name,
     suffix    |-> IF e.symlink_path = None THEN <<>>
                   ELSE <<32, 45, 62, 32>> \o e.symlink_path.value]

\* Decimal digits of n, as bytes
RECURSIVE Digits(_)
Digits(n) == IF n < 10 THEN <<48 + n>> ELSE Append(Digits(n \div 10), 48 + (n % 10))

\* Groups of three digits from the right, separated by "," (44)
RECURSIVE Group(_)
Group(ds) ==
    IF Len(ds) <= 3 THEN ds
    ELSE Group(SubSeq(ds, 1, Len(ds) - 3)) \o <<44>> \o SubSeq(ds, Len(ds) - 2, Len(ds))

\* NumberFormatter::format_u32
format_u32(n) == Group(Digits(n))

HeaderLine == [line |-> "header", path |-> "dir"]
ColumnsLine == [line |-> "columns"]
EntryLine(n, e) == [line |-> "entry", index |-> format_u32(n), text |-> as_string(e)]

\* Error::new
Error_new(description, suggestion, status) ==
    [description |-> description, suggestion |-> suggestion, exit_code |-> status]

(***************************************************************************)
(* The program: Directory::from, then calls of reveal.                     *)
(***************************************************************************)
Init ==
    /\ open \in OpenResults
    /\ \E S \in SUBSET Names :
          /\ Cardinality(S) <= MaxChildren
          /\ (open \in {"ENOENT", "ENOTDIR"} => S = {})
          /\ disk \in [S -> Profiles]
          /\ listing \in IF open = "ok" THEN Perms(S) ELSE {<<>>}
    /\ pc = "start"
    /\ stream = <<>>
    /\ entries = <<>>
    /\ cursor = 0
    /\ entry_number = 0
    /\ stdout = <<>>
    /\ stderr = <<>>
    /\ exit_status = -1
    /\ reveals = 0
    /\ file_type = FileType("none")
    /\ kind = "none"

\* Error::throw: prints the error and ends the process with its exit code
throw(error) ==
    /\ stderr' = Append(stderr, [description |-> error.description,
                                 suggestion  |-> error.suggestion])
    /\ exit_status' = error.exit_code
    /\ pc' = "exited"

\* get_stream that answers a failed read_dir with an empty stream.
get_stream_swallow(result) ==
    [thrown |-> None, stream |-> IF result = "ok" THEN listing ELSE <<>>]

\* Directory::get_stream: the stream, or the error it throws
get_stream(result) ==
    IF result = "ok"
    THEN [thrown |-> None, stream |-> listing]
    ELSE [thrown |-> Some(Error_new("could not read directory.",
                 "ensure that you have enough permissions to read it.", 1)),
          stream |-> <<>>]

\* Directory::from
DirectoryFrom ==
    /\ pc = "start"
    /\ LET r == get_stream(open) IN
       IF r.thrown = None
       THEN /\ stream' = r.stream
            /\ pc' = "ready"
            /\ UNCHANGED <<stderr, exit_status>>
       ELSE /\ throw(r.thrown.value)
            /\ UNCHANGED stream
    /\ UNCHANGED <<open, disk, listing, entries, cursor, entry_number, stdout,
                   reveals, file_type, kind>>

\* reveal that opens the directory again for each call.
RevealCall_reopen ==
    /\ pc = "ready"
    /\ reveals < MaxReveals
    /\ entries' = <<>>
    /\ stream' = listing
    /\ pc' = "get_entries"
    /\ UNCHANGED <<open, disk, listing, cursor, entry_number, stdout,
                   stderr, exit_status, reveals, file_type, kind>>

\* reveal is called; it calls get_entries, which starts with an empty Vec
RevealCall ==
    /\ pc = "ready"
    /\ reveals < MaxReveals
    /\ entries' = <<>>
    /\ pc' = "get_entries"
    /\ UNCHANGED <<open, disk, listing, stream, cursor, entry_number, stdout,
                   stderr, exit_status, reveals, file_type, kind>>

\* A loop that unwraps instead of skipping: a failed item ends the process.
GetEntriesNext_unwrap ==
    /\ pc = "get_entries"
    /\ stream # <<>>
    /\ stream' = Tail(stream)
    /\ IF LoopBody(Head(stream)) = <<>>
       THEN /\ exit_status' = 101
            /\ pc' = "exited"
            /\ UNCHANGED entries
       ELSE /\ entries' = entries \o LoopBody(Head(stream))
            /\ UNCHANGED <<pc, exit_status>>
    /\ UNCHANGED <<open, disk, listing, cursor, entry_number, stdout,
                   stderr, reveals, file_type, kind>>

\* One pass of the for loop of get_entries: the next item leaves the stream
GetEntriesNext ==
    /\ pc = "get_entries"
    /\ stream # <<>>
    /\ stream' = Tail(stream)
    /\ entries' = entries \o LoopBody(Head(stream))
    /\ UNCHANGED <<open, disk, listing, pc, cursor, entry_number, stdout,
                   stderr, exit_status, reveals, file_type, kind>>

\* The stream is at its end: get_entries sorts and returns, reveal prints the
\* header and the column line and starts its loop
GetEntriesReturn ==
    /\ pc = "get_entries"
    /\ stream = <<>>
    /\ entries' = sort_by_key(entries)
    /\ entry_number' = 0
    /\ cursor' = 0
    /\ stdout' = stdout \o <<HeaderLine, ColumnsLine>>
    /\ pc' = "print"
    /\ UNCHANGED <<open, disk, listing, stream, stderr, exit_status, reveals,
                   file_type, kind>>

\* A loop of reveal that never advances entry_number.
RevealPrint_stale_index ==
    /\ pc = "print"
    /\ cursor < Len(entries)
    /\ stdout' = Append(stdout, EntryLine(entry_number, entries[cursor + 1]))
    /\ cursor' = cursor + 1
    /\ UNCHANGED <<open, disk, listing, pc, stream, entries, entry_number,
                   stderr, exit_status, reveals, file_type, kind>>

\* One pass of the for loop of reveal
RevealPrint ==
    /\ pc = "print"
    /\ cursor < Len(entries)
    /\ stdout' = Append(stdout, EntryLine(entry_number, entries[cursor + 1]))
    /\ entry_number' = entry_number + 1   \* a u32: no overflow below 2^32 entries
    /\ cursor' = cursor + 1
    /\ UNCHANGED <<open, disk, listing, pc, stream, entries, stderr,
                   exit_status, reveals, file_type, kind>>

\* reveal returns
RevealReturn ==
    /\ pc = "print"
    /\ cursor = Len(entries)
    /\ pc' = "ready"
    /\ reveals' = reveals + 1
    /\ UNCHANGED <<open, disk, listing, stream, entries, cursor, entry_number,
                   stdout, stderr, exit_status, file_type, kind>>

Next ==
    \/ DirectoryFrom
    \/ RevealCall
    \/ GetEntriesNext
    \/ GetEntriesReturn
    \/ RevealPrint
    \/ RevealReturn

Spec == Init /\ [][Next]_vars

\* The program is one thread that runs until it returns or exits.
FairSpec == Spec /\ WF_vars(Next)

(***************************************************************************)
(* The classifier alone, over every combination of the six indicators.     *)
(***************************************************************************)
InitClassify ==
    /\ file_type \in FileTypes
    /\ kind = "none"
    /\ open = "ok"
    /\ disk = <<>>
    /\ listing = <<>>
    /\ pc = "classify"
    /\ stream = <<>>
    /\ entries = <<>>
    /\ cursor = 0
    /\ entry_number = 0
    /\ stdout = <<>>
    /\ stderr = <<>>
    /\ exit_status = -1
    /\ reveals = 0

Classify ==
    /\ pc = "classify"
    /\ kind = "none"
    /\ kind' = from(file_type)
    /\ UNCHANGED <<open, disk, listing, pc, stream, entries, cursor,
                   entry_number, stdout, stderr, exit_status, reveals, file_type>>

NextClassify == Classify

SpecClassify == InitClassify /\ [][NextClassify]_vars

(***************************************************************************)
(* Vocabulary of the properties.                                           *)
(***************************************************************************)
\* get_entries has returned and entries holds its result
Returned == pc = "print" \/ (pc = "ready" /\ reveals >= 1)

\* ... for the first call of reveal on the Directory
FirstReturned == (pc = "print" /\ reveals = 0) \/ (pc = "ready" /\ reveals = 1)

\* The child can be read: its item, its name and its metadata
Good(n) == disk[n].item = "ok" /\ IsUtf8(n) /\ disk[n].st = "ok"

Reported(n) == \E i \in 1..Len(entries) : entries[i].name = n

\* a <= b in the lexicographic order of bytes
ByteLe(a, b) ==
    \/ Len(a) <= Len(b) /\ \A i \in 1..Len(a) : a[i] = b[i]
    \/ \E k \in 1..Len(a) :
          /\ k <= Len(b)
          /\ \A i \in 1..(k - 1) : a[i] = b[i]
          /\ a[k] < b[k]

\* The lines of the latest call of reveal: from its header line on
HeaderAt == {i \in 1..Len(stdout) : stdout[i].line = "header"}

LastBlock ==
    IF HeaderAt = {} THEN <<>>
    ELSE LET h == CHOOSE i \in HeaderAt : \A j \in HeaderAt : j <= i
         IN  SubSeq(stdout, h, Len(stdout))

EntryLines == {i \in 1..Len(stdout) : stdout[i].line = "entry"}

\* The number a printed index stands for: its digits without the separators
RECURSIVE ParseIndex(_)
ParseIndex(bytes) ==
    IF bytes = <<>> THEN 0
    ELSE LET last == bytes[Len(bytes)]
             rest == SubSeq(bytes, 1, Len(bytes) - 1)
         IN  IF last = 44 THEN ParseIndex(rest)
             ELSE 10 * ParseIndex(rest) + (last - 48)

IsSuffix(s, t) == \E k \in 0..Len(t) : s = SubSeq(t, k + 1, Len(t))

(***************************************************************************)
(* Properties.                                                             *)
(***************************************************************************)

\* C1: the list get_entries returns, and the entry lines reveal prints, are in
\* ascending byte-lexicographic order of the names, whatever the order of the
\* directory stream.
C1_SortedByName ==
    /\ Returned =>
          \A i \in 1..(Len(entries) - 1) :
              ByteLe(entries[i].name, entries[i + 1].name)
    /\ \A i \in 2..Len(LastBlock) - 1 :
          (LastBlock[i].line = "entry") =>
              ByteLe(LastBlock[i].text.name, LastBlock[i + 1].text.name)

C1_Witness ==
    /\ pc = "ready" /\ reveals = 1
    /\ Len(entries) = 3
    /\ listing[1] = <<97, 66>>
    /\ listing[2] = <<97>>
    /\ Len(stdout) = 5

\* C2: for a directory that opens, the list get_entries returns holds exactly
\* one entry for each child whose item, name and metadata could be read, and
\* none for any other child.
C2_CountOfReadable ==
    FirstReturned =>
        /\ Len(entries) = Cardinality({n \in DOMAIN disk : Good(n)})
        /\ \A n \in DOMAIN disk :
              Cardinality({i \in 1..Len(entries) : entries[i].name = n})
                  = IF Good(n) THEN 1 ELSE 0

C2_Witness ==
    /\ FirstReturned
    /\ Len(entries) = 1
    /\ \E n \in DOMAIN disk : ~IsUtf8(n) /\ disk[n].item = "ok" /\ disk[n].st = "ok"
    /\ \E n \in DOMAIN disk : IsUtf8(n) /\ disk[n].item = "ok" /\ disk[n].st # "ok"

\* C3: the classifier returns one of the seven kinds for every combination of
\* the six indicators: the first of File, Directory, Socket, Character, Block,
\* Fifo whose indicator is set, and Unknown exactly when none is set.
C3_Precedence ==
    kind # "none" =>
        /\ kind \in DirectoryEntryKind
        /\ (kind = "File") = file_type.is_file
        /\ (kind = "Directory") = (~file_type.is_file /\ file_type.is_dir)
        /\ (kind = "Socket") =
              (~file_type.is_file /\ ~file_type.is_dir /\ file_type.is_socket)
        /\ (kind = "Character") =
              (/\ ~file_type.is_file /\ ~file_type.is_dir /\ ~file_type.is_socket
               /\ file_type.is_char_device)
        /\ (kind = "Block") =
              (/\ ~file_type.is_file /\ ~file_type.is_dir /\ ~file_type.is_socket
               /\ ~file_type.is_char_device /\ file_type.is_block_device)
        /\ (kind = "Fifo") =
              (/\ ~file_type.is_file /\ ~file_type.is_dir /\ ~file_type.is_socket
               /\ ~file_type.is_char_device /\ ~file_type.is_block_device
               /\ file_type.is_fifo)
        /\ (kind = "Unknown") =
              (/\ ~file_type.is_file /\ ~file_type.is_dir /\ ~file_type.is_socket
               /\ ~file_type.is_char_device /\ ~file_type.is_block_device
               /\ ~file_type.is_fifo)

C3_Witness ==
    /\ kind = "Character"
    /\ file_type.is_char_device /\ file_type.is_block_device /\ file_type.is_fifo

\* C4: when the directory cannot be opened, Directory::from ends the process
\* with one error and a non-zero exit status: no Directory exists, reveal is
\* never reached and nothing is printed; no other failure ends the process.
C4_OpenFailureIsFatal ==
    /\ (open # "ok" /\ pc # "start") =>
          /\ pc = "exited"
          /\ exit_status # 0 /\ exit_status # -1
          /\ Len(stderr) = 1
          /\ stdout = <<>>
          /\ stream = <<>>
          /\ reveals = 0
    /\ (pc = "exited" \/ exit_status # -1 \/ stderr # <<>>) => open # "ok"

C4_Witness ==
    /\ pc = "exited"
    /\ open = "EACCES"
    /\ \E n \in DOMAIN disk : Good(n)

\* C5: an entry of the report has symlink_path set exactly when the child it
\* reports is itself a symbolic link, and its line has the link marker and the
\* link suffix exactly then.
C5_SymlinkPathIffLink ==
    /\ Returned =>
          \A i \in 1..Len(entries) :
              (entries[i].symlink_path # None) = disk[entries[i].name].lnk
    /\ \A i \in EntryLines :
          /\ (stdout[i].text.decorator = <<64>>) = disk[stdout[i].text.name].lnk
          /\ (stdout[i].text.suffix # <<>>) = disk[stdout[i].text.name].lnk

C5_Witness ==
    /\ pc = "ready" /\ reveals = 1
    /\ \E i \in 1..Len(entries) : entries[i].symlink_path # None
    /\ \E i \in 1..Len(entries) :
          entries[i].symlink_path = None /\ entries[i].kind = "File"

\* C6: every symbolic link of the directory whose item and name can be read is
\* in the report, with symlink_path holding the text stored in the link,
\* whether or not the link's target exists.
C6_EveryLinkReported ==
    FirstReturned =>
        \A n \in DOMAIN disk :
            (disk[n].lnk /\ disk[n].item = "ok" /\ IsUtf8(n)) =>
                \E i \in 1..Len(entries) :
                    /\ entries[i].name = n
                    /\ entries[i].symlink_path = Some(disk[n].target)

\* C7: an entry's owner is empty exactly when the user database has no name
\* for the uid of its metadata; such an entry is reported all the same, and
\* the owner column of a line is empty exactly for those entries.
C7_OwnerIffResolvable ==
    /\ Returned =>
          \A i \in 1..Len(entries) :
              (entries[i].owner = None)
                  = (disk[entries[i].name].uid \notin DOMAIN passwd)
    /\ FirstReturned =>
          \A n \in DOMAIN disk :
              (Good(n) /\ disk[n].uid \notin DOMAIN passwd) => Reported(n)
    /\ \A i \in EntryLines :
          (stdout[i].text.owner = <<>>)
              = (disk[stdout[i].text.name].uid \notin DOMAIN passwd)

C7_Witness ==
    /\ pc = "ready" /\ reveals = 1
    /\ \E i \in EntryLines : stdout[i].text.owner = <<>>
    /\ \E i \in EntryLines : stdout[i].text.owner = <<97, 108, 105, 99, 101>>

\* C8: reveal prints the header line, the column line and then one line for
\* each entry of the sorted list, in its order; the k-th entry line, from 0,
\* carries index k; an empty list gives the two lines alone.
C8_ReportLayout ==
    /\ (pc \in {"start", "exited"} \/ (reveals = 0 /\ pc \in {"ready", "get_entries"}))
          => stdout = <<>>
    /\ Returned =>
          /\ Len(LastBlock) >= 2
          /\ LastBlock[1] = HeaderLine
          /\ LastBlock[2] = ColumnsLine
          /\ Len(LastBlock) <= 2 + Len(entries)
          /\ \A j \in 3..Len(LastBlock) :
                /\ LastBlock[j].line = "entry"
                /\ ParseIndex(LastBlock[j].index) = j - 3
                /\ LastBlock[j].text.name = entries[j - 2].name
          /\ (pc = "ready" => Len(LastBlock) = 2 + Len(entries))

C8_Witness ==
    /\ pc = "ready" /\ reveals = 1
    /\ Len(entries) = 3
    /\ Len(stdout) = 5
    /\ ParseIndex(stdout[5].index) = 2

\* C9: once the directory is open, get_entries reaches the end of the stream
\* and returns whatever items fail, and every readable item that comes after a
\* failed one in the stream is in the list of the first call.
C9_FailureDoesNotAbort ==
    /\ (pc = "get_entries") ~> (pc = "print")
    /\ [](FirstReturned =>
            \A i \in 1..Len(listing) : \A j \in 1..Len(listing) :
                (i < j /\ ~Good(listing[i]) /\ Good(listing[j]))
                    => Reported(listing[j]))

C9_Witness ==
    /\ FirstReturned
    /\ Len(listing) = 3
    /\ ~Good(listing[1]) /\ Good(listing[2]) /\ ~Good(listing[3])
    /\ Reported(listing[2])

\* C10: the stream of a Directory only loses items, so each item is taken at
\* most once; it is empty when reveal has returned; and a later call of reveal
\* prints the header line and the column line alone, the directory unchanged.
C10_StreamIsSinglePass ==
    /\ [][pc # "start" => IsSuffix(stream', stream)]_vars
    /\ []((pc = "ready" /\ reveals >= 1) => stream = <<>>)
    /\ []((pc = "ready" /\ reveals >= 2) => LastBlock = <<HeaderLine, ColumnsLine>>)

C10_Witness ==
    /\ pc = "ready" /\ reveals = 2
    /\ Cardinality({n \in DOMAIN disk : Good(n)}) >= 2
    /\ Len(stdout) = 6

====
